---------------------------- MODULE Spec2Model ----------------------------
(***************************************************************************)
(* A model of the scan-orchestration core of the yara connector            *)
(* (src/main.py): the rescan decision (_check_hash_against_feed), the      *)
(* batch dispatcher (analyze_binaries, local and distributed), the result  *)
(* recorder (save_results), the feed generator (generate_feed_from_db)     *)
(* and the scan loop driver (perform).                                     *)
(***************************************************************************)
EXTENDS Integers, Sequences, FiniteSets

(***************************************************************************)
(* Bounds of the model.                                                    *)
(***************************************************************************)
\* artifact identifiers (md5 of a binary) are 1..NumIds
NumIds == 2
\* the artifact source returns at most MaxRows rows
MaxRows == 3
\* g_max_hashes ranges over 1..MaxBatch
MaxBatch == 2
\* content hashes of rule files are 1..NumRuleHashes, ordered as the hex strings are
NumRuleHashes == 2
\* a rule directory holds at most MaxRules rule files
MaxRules == 2
\* the 120 s bound of the poll loop, in ticks of the model's clock
PollTimeout == 2
\* the 86400 s of a day, in ticks of the vacuum clock
DayTicks == 3
\* the time since the vacuum timer was started stays within 0..MaxSinceStart
MaxSinceStart == 4
\* g_vacuum_seconds ranges over -1..MaxVacuum
MaxVacuum == 3

Ids == 1..NumIds
RuleHashes == 1..NumRuleHashes
\* scores a scan can report: no match, a match
Scores == {0, 5}

(***************************************************************************)
(* Rule set fingerprints: the sorted list of content hashes that           *)
(* generate_yara_rule_map_hash leaves in g_yara_rule_map_hash_list.        *)
(***************************************************************************)
IsSorted(l) == \A i \in 1..(Len(l) - 1) : l[i] <= l[i + 1]

SeqsUpTo(S, n) == UNION {[1..k -> S] : k \in 0..n}

Fingerprints == {l \in SeqsUpTo(RuleHashes, MaxRules) : IsSorted(l)}

(***************************************************************************)
(* The rule directory and generate_yara_rule_map_hash.  An entry has a     *)
(* name, is a file or a directory, has a rule extension (.yar, .yara, in   *)
(* any case) or not, and, when a file, holds data.                         *)
(***************************************************************************)
\* file contents, and the names a directory can hold
Contents == 1..NumRuleHashes
FileNames == 1..(MaxRules + 1)

Entry(fn, rule_ext, isfile, data) ==
    [fn |-> fn, rule_ext |-> rule_ext, isfile |-> isfile, data |-> data]

\* a rule file, a file without a rule extension, a directory named like a rule
Entries ==
    {Entry(fn, rule_ext, TRUE, data) : fn \in FileNames, rule_ext \in BOOLEAN,
                                        data \in Contents}
      \cup {Entry(fn, TRUE, FALSE, 1) : fn \in FileNames}

\* the entries generate_yara_rule_map_hash opens
IsRuleFile(entry) == entry.rule_ext /\ entry.isfile

\* hashlib.md5 of the data, as its place among the hex digests: distinct data
\* have distinct digests, and the digests are not ordered as the data are
md5_hexdigest(data) == NumRuleHashes + 1 - data

\* os.listdir: the entries of a directory in some order
Listings(dir) ==
    {l \in [1..Cardinality(dir) -> dir] : \A i, j \in 1..Cardinality(dir) : l[i] = l[j] => i = j}

\* the loop over the listing: the digest of every rule file, in listing order
RECURSIVE temp_list(_)
temp_list(listing) ==
    IF listing = <<>> THEN <<>>
    ELSE LET fn == Head(listing)
         IN  (IF IsRuleFile(fn) THEN <<md5_hexdigest(fn.data)>> ELSE <<>>)
                 \o temp_list(Tail(listing))

\* list.sort(): ascending
RECURSIVE insert_sorted(_, _)
insert_sorted(l, x) ==
    IF l = <<>> THEN <<x>>
    ELSE IF x <= Head(l) THEN <<x>> \o l
    ELSE <<Head(l)>> \o insert_sorted(Tail(l), x)

RECURSIVE sort(_)
sort(l) == IF l = <<>> THEN <<>> ELSE insert_sorted(sort(Tail(l)), Head(l))

\* the list left as the loop built it, the sort left out
rule_map_hash_unsorted(listing) == temp_list(listing)

\* the value generate_yara_rule_map_hash leaves in g_yara_rule_map_hash_list
generate_yara_rule_map_hash(listing) == sort(temp_list(listing))

\* a directory of rule files whose fingerprint is fp
DirOf(fp) == {Entry(i, TRUE, TRUE, NumRuleHashes + 1 - fp[i]) : i \in 1..Len(fp)}

(***************************************************************************)
(* JSON texts, as sequences of tokens.  json.dumps of a list of strings    *)
(* writes "[", the strings separated by ",", and "]"; json.loads parses a  *)
(* text or raises (None, an empty or truncated text, trailing data).       *)
(***************************************************************************)
Tok(t, v) == [t |-> t, v |-> v]
LB == Tok("[", 0)
RB == Tok("]", 0)
COMMA == Tok(",", 0)
NULLTOK == Tok("null", 0)
Str(h) == Tok("str", h)

RECURSIVE dump_items(_)
dump_items(l) ==
    IF l = <<>> THEN <<>>
    ELSE IF Len(l) = 1 THEN <<Str(l[1])>>
    ELSE <<Str(l[1]), COMMA>> \o dump_items(Tail(l))

json_dumps(l) == <<LB>> \o dump_items(l) \o <<RB>>

\* a value json.loads returns, or the failure to parse
Parsed(kind, items) == [ok |-> TRUE, kind |-> kind, items |-> items]
ParseError == [ok |-> FALSE, kind |-> "error", items |-> <<>>]

\* the elements of an array after "[": a string, then "," and more, or "]" and the end
RECURSIVE load_items(_, _)
load_items(text, acc) ==
    IF Len(text) < 2 \/ text[1].t # "str" THEN ParseError
    ELSE IF text[2] = RB
         THEN IF Len(text) = 2 THEN Parsed("list", Append(acc, text[1].v)) ELSE ParseError
    ELSE IF text[2] = COMMA
         THEN load_items(SubSeq(text, 3, Len(text)), Append(acc, text[1].v))
    ELSE ParseError

json_loads(text) ==
    IF text = <<>> THEN ParseError
    ELSE IF text = <<NULLTOK>> THEN Parsed("null", <<>>)
    ELSE IF Len(text) = 1 /\ text[1].t = "str" THEN Parsed("str", <<text[1].v>>)
    ELSE IF text[1] = LB
         THEN IF text = <<LB, RB>> THEN Parsed("list", <<>>)
              ELSE load_items(Tail(text), <<>>)
    ELSE ParseError

\* values of the misc column: what save_results writes, and damaged or foreign texts
MiscValues ==
    {json_dumps(f) : f \in Fingerprints}
      \cup {<<>>, <<LB>>, <<LB, Str(1)>>, <<LB, Str(1), COMMA, RB>>, <<LB, RB, RB>>,
            <<NULLTOK>>, <<Str(1)>>, <<LB, Str(2), COMMA, Str(1), RB>>}

(***************************************************************************)
(* The state.                                                              *)
(***************************************************************************)
VARIABLES
    \* globals: the configuration and the run's counters
    g_remote, g_disable_rescan, g_max_hashes, g_yara_rule_map_hash_list,
    g_vacuum_seconds, g_num_binaries_analyzed, g_num_binaries_not_available,
    \* the BinaryDetonationResult table (rows in insertion order) and the feed file
    db, feed,
    \* perform: the fetched rows, the next row, and the loop's locals
    rows, row, md5_hashes, num_total_binaries, num_binaries_skipped,
    \* perform: the time since start_datetime, and the calls of execute_script
    since_start, vacuums,
    \* the rule directory, the fingerprint computed before the directory last
    \* changed, and what the change was
    rule_dir, hash_list_before, dir_change,
    \* the task that uploads the rules to the workers, the number of the run,
    \* the table as the run found it, and what the run before it left
    upload, run, start_db, first_run,
    \* the identifiers of the batches of this run whose dispatch failed
    dropped,
    \* where the driver is, and which call of _analyze_save_and_log it is in
    pc, caller,
    \* analyze_binaries: results so far (local), the group in the substrate, the clock
    results, scan_group, elapsed,
    \* _analyze_save_and_log / save_results: the value returned, the loop's position
    analysis_results, save_pos,
    \* history: the batches dispatched, the identifiers accepted, the number of
    \* feed generations, where an exception left the run, and what was seen
    \* of the dispatch call in progress
    dispatched, accepted, regenerated, raised_in, call,
    \* the last answer of _check_hash_against_feed when applied on its own
    decision

config_vars == <<g_remote, g_disable_rescan, g_max_hashes, g_yara_rule_map_hash_list,
                 g_vacuum_seconds>>
counter_vars == <<g_num_binaries_analyzed, g_num_binaries_not_available>>
perform_vars == <<rows, row, md5_hashes, num_total_binaries, num_binaries_skipped>>
timer_vars == <<since_start, vacuums>>
rules_vars == <<rule_dir, hash_list_before, dir_change>>
outer_vars == <<upload, run, start_db, first_run>>
dispatch_vars == <<results, scan_group, elapsed>>
history_vars == <<dispatched, accepted, regenerated, raised_in, call>>
run_vars == <<counter_vars, feed, perform_vars, timer_vars, pc, caller, dispatch_vars,
              analysis_results, save_pos, history_vars>>
vars == <<config_vars, rules_vars, outer_vars, dropped, db, run_vars, decision>>

(***************************************************************************)
(* The record store: BinaryDetonationResult rows, md5 the key.             *)
(***************************************************************************)
Row(md5, score, misc) == [md5 |-> md5, score |-> score, misc |-> misc]

\* BinaryDetonationResult.select().where(md5 == md5_hash): the matching row numbers
select_md5(table, md5_hash) == {i \in 1..Len(table) : table[i].md5 = md5_hash}

\* query.exists()
query_exists(table, md5_hash) == select_md5(table, md5_hash) # {}

\* BinaryDetonationResult.get(md5 == md5_hash): the first matching row
get_index(table, md5_hash) ==
    CHOOSE i \in select_md5(table, md5_hash) : \A j \in select_md5(table, md5_hash) : i <= j

\* a row as get_or_create inserts it, before any field is set
NewRecord(md5) == Row(md5, 0, <<>>)

(***************************************************************************)
(* Rescan decision.                                                        *)
(***************************************************************************)
\* _check_hash_against_feed without the g_disable_rescan override
check_ignoring_disable(md5_hash) ==
    IF query_exists(db, md5_hash)
    THEN LET bdr == db[get_index(db, md5_hash)]
             scanned_hash_list == json_loads(bdr.misc)
         IN  IF ~scanned_hash_list.ok THEN FALSE
             ELSE IF scanned_hash_list.kind = "list"
                      /\ scanned_hash_list.items = g_yara_rule_map_hash_list
                  THEN FALSE
             ELSE TRUE
    ELSE TRUE

\* _check_hash_against_feed comparing only the number of hashes
check_comparing_length(md5_hash) ==
    IF query_exists(db, md5_hash)
    THEN LET bdr == db[get_index(db, md5_hash)]
             scanned_hash_list == json_loads(bdr.misc)
         IN  IF ~scanned_hash_list.ok THEN FALSE
             ELSE IF g_disable_rescan /\ bdr.misc # <<>> THEN FALSE
             ELSE IF scanned_hash_list.kind = "list"
                      /\ Len(scanned_hash_list.items) = Len(g_yara_rule_map_hash_list)
                  THEN FALSE
             ELSE TRUE
    ELSE TRUE

\* _check_hash_against_feed without the comparison of the fingerprints
check_without_fingerprint(md5_hash) ==
    IF query_exists(db, md5_hash)
    THEN LET bdr == db[get_index(db, md5_hash)]
             scanned_hash_list == json_loads(bdr.misc)
         IN  IF ~scanned_hash_list.ok THEN FALSE
             ELSE IF g_disable_rescan /\ bdr.misc # <<>> THEN FALSE
             ELSE TRUE
    ELSE TRUE

\* True when md5_hash has to be scanned.  json.loads raising (and anything else
\* raised in the try) is caught, and the handler returns False.
_check_hash_against_feed(md5_hash) ==
    IF query_exists(db, md5_hash)
    THEN LET bdr == db[get_index(db, md5_hash)]
             scanned_hash_list == json_loads(bdr.misc)
         IN  IF ~scanned_hash_list.ok THEN FALSE
             ELSE IF g_disable_rescan /\ bdr.misc # <<>> THEN FALSE
             ELSE IF scanned_hash_list.kind = "list"
                      /\ scanned_hash_list.items = g_yara_rule_map_hash_list
                  THEN FALSE
             ELSE TRUE
    ELSE TRUE

(***************************************************************************)
(* Feed generator.                                                         *)
(***************************************************************************)
Report(binary) == [id |-> binary.md5, md5 |-> binary.md5, score |-> binary.score]

\* the feed written with `score >= 0' as the condition of the select
generate_feed_nonnegative(table) ==
    LET query == SelectSeq(table, LAMBDA binary : binary.score >= 0)
    IN  [i \in 1..Len(query) |-> Report(query[i])]

\* the reports written to the feed file: one per row with score > 0
generate_feed_from_db(table) ==
    LET query == SelectSeq(table, LAMBDA binary : binary.score > 0)
    IN  [i \in 1..Len(query) |-> Report(query[i])]

(***************************************************************************)
(* Scan engine: what analyze_binary returns for an identifier (or it       *)
(* raises), and the units of a group in the execution substrate.           *)
(***************************************************************************)
AnalysisResult(md5, not_available, score) ==
    [md5 |-> md5, binary_not_available |-> not_available, score |-> score]

AnalysisResults(md5) ==
    {AnalysisResult(md5, TRUE, 0)} \cup {AnalysisResult(md5, FALSE, s) : s \in Scores}

Unit(md5, state, result) == [md5 |-> md5, state |-> state, result |-> result]

\* analyze_binary.s(md5_hash), once submitted
PendingUnit(md5) == Unit(md5, "PENDING", AnalysisResult(md5, FALSE, 0))

\* GroupResult.ready() taken as: some unit has finished
ready_some(grp) == \E i \in 1..Len(grp) : grp[i].state # "PENDING"

\* GroupResult.ready(): every unit has finished, well or not
ready(grp) == \A i \in 1..Len(grp) : grp[i].state # "PENDING"

\* GroupResult.successful() taken as: some unit succeeded
successful_some(grp) == \E i \in 1..Len(grp) : grp[i].state = "SUCCESS"

\* GroupResult.successful(): every unit succeeded
successful(grp) == \A i \in 1..Len(grp) : grp[i].state = "SUCCESS"

\* GroupResult.get(timeout=30): the results of the units in the order submitted;
\* it cannot return them while a unit is pending (it times out) or has failed
\* (it raises the unit's exception again)
group_get(grp) ==
    [ok |-> \A i \in 1..Len(grp) : grp[i].state = "SUCCESS",
     list |-> [i \in 1..Len(grp) |-> grp[i].result]]

\* the value of analyze_binaries: None, or a list of results
ReturnNone == [none |-> TRUE, list |-> <<>>]
ReturnList(l) == [none |-> FALSE, list |-> l]
\* `if analysis_results:'
truthy(value) == ~value.none /\ value.list # <<>>

(***************************************************************************)
(* The initial state of a run: main has read the configuration, computed   *)
(* the fingerprint, opened the table and written the feed once; perform    *)
(* has fetched the rows.                                                   *)
(***************************************************************************)
\* the run's rule directory: one rule file per content hash
RunFingerprints == {[i \in 1..NumRuleHashes |-> i]}

\* what a row left by an earlier run holds: scanned under the current rules,
\* scanned before the last rule file was added, or created and never saved
StoredStates(fp) ==
    {[present |-> TRUE, score |-> 5, misc |-> json_dumps(fp)],
     [present |-> TRUE, score |-> 5, misc |-> json_dumps(SubSeq(fp, 1, Len(fp) - 1))],
     [present |-> TRUE, score |-> 0, misc |-> <<>>],
     [present |-> FALSE, score |-> 0, misc |-> <<>>]}

RECURSIVE TableOf(_, _)
TableOf(f, n) ==
    IF n = 0 THEN <<>>
    ELSE IF f[n].present THEN Append(TableOf(f, n - 1), Row(n, f[n].score, f[n].misc))
    ELSE TableOf(f, n - 1)

\* tables with at most one row per identifier
InitialTables(fp) == {TableOf(f, NumIds) : f \in [Ids -> StoredStates(fp)]}

NoCall ==
    [db |-> <<>>, analyzed |-> 0, not_available |-> 0, regenerated |-> 0,
     executed |-> <<>>, failed_unit |-> 0, poll_exit |-> "none",
     pending_at_check |-> FALSE, store_failed_at |-> 0]

NoDecision == [md5 |-> 0, scan |-> FALSE]

\* no run has gone before
NoRun == [start_db |-> <<>>, db |-> <<>>, feed |-> <<>>, dropped |-> {}]

InitRun ==
    /\ g_num_binaries_analyzed = 0
    /\ g_num_binaries_not_available = 0
    /\ feed = generate_feed_from_db(db)
    /\ rule_dir = DirOf(g_yara_rule_map_hash_list)
    /\ hash_list_before = g_yara_rule_map_hash_list
    /\ dir_change = "none"
    /\ upload = "none"
    /\ run = 1
    /\ start_db = db
    /\ first_run = NoRun
    /\ dropped = {}
    /\ row = 1
    /\ since_start = 0
    /\ vacuums = 0
    /\ md5_hashes = <<>>
    /\ num_total_binaries = 0
    /\ num_binaries_skipped = 0
    /\ caller = "none"
    /\ results = <<>>
    /\ scan_group = <<>>
    /\ elapsed = 0
    /\ analysis_results = ReturnNone
    /\ save_pos = 0
    /\ dispatched = <<>>
    /\ accepted = <<>>
    /\ regenerated = 1
    /\ raised_in = "none"
    /\ call = NoCall
    /\ decision = NoDecision

Init ==
    /\ g_remote \in BOOLEAN
    /\ g_disable_rescan \in BOOLEAN
    /\ g_max_hashes \in 1..MaxBatch
    /\ g_yara_rule_map_hash_list \in RunFingerprints
    /\ g_vacuum_seconds = 0
    /\ db \in InitialTables(g_yara_rule_map_hash_list)
    /\ rows \in SeqsUpTo(Ids, MaxRows)
    /\ pc = "loop"
    /\ InitRun

(***************************************************************************)
(* Scan loop driver: perform.                                              *)
(***************************************************************************)
\* `len(md5_hashes) > g_max_hashes'
flush_when_over(hashes) == Len(hashes) > g_max_hashes

\* `if len(md5_hashes) >= globals.g_max_hashes'
flush_due(hashes) == Len(hashes) >= g_max_hashes

\* the feed left as it is at the end of perform
final_feed_kept == feed

\* the last statement of perform: generate_feed_from_db()
final_feed == generate_feed_from_db(db)

\* _analyze_save_and_log(hashes, ...) entered: analyze_binaries(hashes, local) begins
StartCall(hashes, from) ==
    /\ pc' = IF g_remote THEN "submit" ELSE "local"
    /\ caller' = from
    /\ results' = <<>>
    /\ dispatched' = Append(dispatched, hashes)
    /\ call' = [NoCall EXCEPT !.db = db,
                              !.analyzed = g_num_binaries_analyzed,
                              !.not_available = g_num_binaries_not_available,
                              !.regenerated = regenerated]

\* analyze_binaries returns value; `if analysis_results:' then decides on save_results
Returned(value) ==
    /\ analysis_results' = value
    /\ save_pos' = 1
    /\ pc' = IF truthy(value) THEN "save" ELSE "return"

\* `(datetime.now() - start_datetime).seconds': the seconds field of the
\* timedelta, which leaves out its whole days
seconds_since_start == since_start % DayTicks

\* `if seconds_since_start >= globals.g_vacuum_seconds > 0'
vacuum_due == seconds_since_start >= g_vacuum_seconds /\ g_vacuum_seconds > 0

\* one iteration of `for row in rows', up to the call of _analyze_save_and_log:
\* the vacuum script when it is due, then the decision on the row
perform_row ==
    /\ pc = "loop"
    /\ row <= Len(rows)
    /\ IF vacuum_due
       THEN /\ vacuums' = vacuums + 1
            /\ since_start' = 0
       ELSE UNCHANGED timer_vars
    /\ LET md5_hash == rows[row]
           scan == _check_hash_against_feed(md5_hash)
           hashes == IF scan THEN Append(md5_hashes, md5_hash) ELSE md5_hashes
       IN  /\ row' = row + 1
           /\ num_total_binaries' = num_total_binaries + 1
           /\ num_binaries_skipped' = num_binaries_skipped + (IF scan THEN 0 ELSE 1)
           /\ md5_hashes' = hashes
           /\ accepted' = IF scan THEN Append(accepted, md5_hash) ELSE accepted
           /\ IF flush_due(hashes)
              THEN StartCall(hashes, "loop")
              ELSE UNCHANGED <<pc, caller, results, dispatched, call>>
    /\ UNCHANGED <<config_vars, rules_vars, outer_vars,
                   dropped, db, counter_vars, feed, rows, scan_group, elapsed,
                   analysis_results, save_pos, regenerated, raised_in, decision>>

\* after the loop: the remaining batch, or the final feed when there is none
perform_finish ==
    /\ pc = "loop"
    /\ row > Len(rows)
    /\ IF Len(md5_hashes) > 0
       THEN /\ StartCall(md5_hashes, "finish")
            /\ UNCHANGED <<feed, regenerated>>
       ELSE /\ feed' = final_feed
            /\ regenerated' = regenerated + 1
            /\ pc' = "done"
            /\ UNCHANGED <<caller, results, dispatched, call>>
    /\ UNCHANGED <<config_vars, rules_vars, outer_vars,
                   dropped, timer_vars, db, counter_vars, perform_vars, scan_group, elapsed,
                   analysis_results, save_pos, accepted, raised_in, decision>>

\* the dispatch call did not go through: a unit raised (local); the submission
\* raised, a unit was pending when the group was inspected, or a unit failed
\* (distributed)
CallFailed ==
    IF g_remote
    THEN \/ call.poll_exit = "none"
         \/ call.pending_at_check
         \/ \E i \in 1..Len(scan_group) : scan_group[i].state = "FAILURE"
    ELSE call.failed_unit > 0

\* _analyze_save_and_log returns (after _rule_logging) to perform
analyze_return ==
    /\ pc = "return"
    /\ dropped' = IF CallFailed
                  THEN dropped \cup {dispatched[Len(dispatched)][i] :
                                        i \in 1..Len(dispatched[Len(dispatched)])}
                  ELSE dropped
    /\ IF caller = "loop"
       THEN /\ md5_hashes' = <<>>
            /\ pc' = "loop"
            /\ UNCHANGED <<feed, regenerated>>
       ELSE /\ feed' = final_feed
            /\ regenerated' = regenerated + 1
            /\ pc' = "done"
            /\ UNCHANGED md5_hashes
    /\ UNCHANGED <<config_vars, rules_vars, outer_vars,
                   timer_vars, db, counter_vars, rows, row, num_total_binaries,
                   num_binaries_skipped, caller, dispatch_vars, analysis_results,
                   save_pos, dispatched, accepted, raised_in, call, decision>>

(***************************************************************************)
(* Batch dispatcher: analyze_binaries.                                     *)
(***************************************************************************)
\* a failing unit taken as the end of the list: the results so far are returned
local_failed_partial == Returned(ReturnList(results))

\* `except Exception': log, sleep, return None
local_failed == Returned(ReturnNone)

\* local mode: analyze_binary(md5_hash) for the next hash of the batch
analyze_local ==
    /\ pc = "local"
    /\ LET k == Len(results) + 1
           md5_hash == md5_hashes[k]
       IN  \/ \E r \in AnalysisResults(md5_hash) :
                /\ results' = Append(results, r)
                /\ call' = [call EXCEPT !.executed = Append(@, md5_hash)]
                /\ IF k = Len(md5_hashes)
                   THEN Returned(ReturnList(Append(results, r)))
                   ELSE UNCHANGED <<pc, analysis_results, save_pos>>
           \/ /\ call' = [call EXCEPT !.executed = Append(@, md5_hash),
                                      !.failed_unit = k]
              /\ local_failed
              /\ UNCHANGED results
    /\ UNCHANGED <<config_vars, rules_vars, outer_vars,
                   dropped, timer_vars, db, counter_vars, feed, perform_vars, caller,
                   scan_group, elapsed, dispatched, accepted, regenerated, raised_in,
                   decision>>

\* distributed mode: group(scan_group).apply_async(), or it raises
analyze_submit ==
    /\ pc = "submit"
    /\ \/ /\ scan_group' = [i \in 1..Len(md5_hashes) |-> PendingUnit(md5_hashes[i])]
          /\ elapsed' = 0
          /\ pc' = "poll"
          /\ UNCHANGED <<analysis_results, save_pos>>
       \/ /\ Returned(ReturnNone)
          /\ UNCHANGED <<scan_group, elapsed>>
    /\ UNCHANGED <<config_vars, rules_vars, outer_vars,
                   dropped, timer_vars, db, counter_vars, feed, perform_vars, caller, results,
                   history_vars, decision>>

\* a worker of the substrate finishes a unit: with a result, or failing
worker(i) ==
    /\ i \in 1..Len(scan_group)
    /\ scan_group[i].state = "PENDING"
    /\ \/ \E r \in AnalysisResults(scan_group[i].md5) :
             scan_group' = [scan_group EXCEPT ![i] = Unit(@.md5, "SUCCESS", r)]
       \/ scan_group' = [scan_group EXCEPT ![i] = Unit(@.md5, "FAILURE", @.result)]
    /\ UNCHANGED <<config_vars, rules_vars, outer_vars,
                   dropped, timer_vars, db, counter_vars, feed, perform_vars, pc, caller,
                   results, elapsed, analysis_results, save_pos, history_vars, decision>>

\* one turn of `while not result.ready()': leave, break at the bound, or sleep
analyze_poll ==
    /\ pc = "poll"
    /\ IF ready(scan_group)
       THEN /\ pc' = "collect"
            /\ call' = [call EXCEPT !.poll_exit = "ready"]
            /\ UNCHANGED elapsed
       ELSE IF elapsed >= PollTimeout
       THEN /\ pc' = "collect"
            /\ call' = [call EXCEPT !.poll_exit = "timeout"]
            /\ UNCHANGED elapsed
       ELSE /\ elapsed' = elapsed + 1
            /\ UNCHANGED <<pc, call>>
    /\ UNCHANGED <<config_vars, rules_vars, outer_vars,
                   dropped, timer_vars, db, counter_vars, feed, perform_vars, caller, results,
                   scan_group, analysis_results, save_pos, dispatched, accepted,
                   regenerated, raised_in, decision>>

\* the `else' of the try: result.successful(), then result.get(timeout=30),
\* whose exception nothing in analyze_binaries, _analyze_save_and_log or perform
\* catches: main logs it and exits
analyze_collect ==
    /\ pc = "collect"
    /\ call' = [call EXCEPT !.pending_at_check = ~ready(scan_group)]
    /\ IF successful(scan_group)
       THEN \/ /\ group_get(scan_group).ok
               /\ Returned(ReturnList(group_get(scan_group).list))
               /\ UNCHANGED raised_in
            \/ /\ pc' = "exit"
               /\ raised_in' = "analyze_binaries"
               /\ UNCHANGED <<analysis_results, save_pos>>
       ELSE /\ Returned(ReturnNone)
            /\ UNCHANGED raised_in
    /\ UNCHANGED <<config_vars, rules_vars, outer_vars,
                   dropped, timer_vars, db, counter_vars, feed, perform_vars, caller,
                   dispatch_vars, dispatched, accepted, regenerated, decision>>

(***************************************************************************)
(* Result recorder: save_results.                                          *)
(***************************************************************************)
\* BinaryDetonationResult.get_or_create(md5=...): the table with a row for md5
get_or_create(table, md5) ==
    IF query_exists(table, md5) THEN table ELSE Append(table, NewRecord(md5))

\* the `continue' of the binary_not_available branch left out
persists_unavailable(analysis_result) == FALSE

\* `if analysis_result.binary_not_available: ... continue'
skips_persistence(analysis_result) == analysis_result.binary_not_available

\* one iteration of `for analysis_result in analysis_results'.  get_or_create is
\* called outside the try, so its exception leaves save_results and perform;
\* an exception of the field updates or of bdr.save() is logged
save_results ==
    /\ pc = "save"
    /\ LET analysis_result == analysis_results.list[save_pos]
           next == /\ save_pos' = save_pos + 1
                   /\ pc' = IF save_pos = Len(analysis_results.list) THEN "return" ELSE "save"
       IN  /\ g_num_binaries_not_available' =
                  g_num_binaries_not_available
                    + (IF analysis_result.binary_not_available THEN 1 ELSE 0)
           /\ IF skips_persistence(analysis_result)
              THEN /\ next
                   /\ UNCHANGED <<db, feed, g_num_binaries_analyzed, regenerated,
                                  raised_in, call>>
              ELSE \/ /\ pc' = "exit"
                      /\ raised_in' = "save_results"
                      /\ call' = [call EXCEPT !.store_failed_at =
                                                  IF @ = 0 THEN save_pos ELSE @]
                      /\ UNCHANGED <<db, feed, g_num_binaries_analyzed, regenerated,
                                     save_pos>>
                   \/ LET table == get_or_create(db, analysis_result.md5)
                          bdr == get_index(table, analysis_result.md5)
                          saved == [table EXCEPT ![bdr] =
                                       Row(analysis_result.md5, analysis_result.score,
                                           json_dumps(g_yara_rule_map_hash_list))]
                      IN  \/ /\ db' = saved
                             /\ g_num_binaries_analyzed' = g_num_binaries_analyzed + 1
                             /\ IF analysis_result.score > 0
                                THEN /\ feed' = generate_feed_from_db(saved)
                                     /\ regenerated' = regenerated + 1
                                ELSE UNCHANGED <<feed, regenerated>>
                             /\ next
                             /\ UNCHANGED <<raised_in, call>>
                          \/ /\ db' = table
                             /\ call' = [call EXCEPT !.store_failed_at =
                                                         IF @ = 0 THEN save_pos ELSE @]
                             /\ next
                             /\ UNCHANGED <<feed, g_num_binaries_analyzed, regenerated,
                                            raised_in>>
    /\ UNCHANGED <<config_vars, rules_vars, outer_vars,
                   dropped, timer_vars, perform_vars, caller, dispatch_vars, analysis_results,
                   dispatched, accepted, decision>>

(***************************************************************************)
(* A run of perform.                                                       *)
(***************************************************************************)
Next ==
    \/ perform_row
    \/ perform_finish
    \/ analyze_local
    \/ analyze_submit
    \/ \E i \in 1..MaxBatch : worker(i)
    \/ analyze_poll
    \/ analyze_collect
    \/ save_results
    \/ analyze_return

Spec == Init /\ [][Next]_vars

(***************************************************************************)
(* Two runs: after a run that reached Done, main is started again with the *)
(* same rule directory and finds the same rows.                            *)
(***************************************************************************)
\* what a row left before the first run holds: scanned before the last rule
\* file was added, or nothing
StoredBefore(fp) ==
    {[present |-> TRUE, score |-> 5, misc |-> json_dumps(SubSeq(fp, 1, Len(fp) - 1))],
     [present |-> FALSE, score |-> 0, misc |-> <<>>]}

InitRerun ==
    /\ g_remote \in BOOLEAN
    /\ g_disable_rescan \in BOOLEAN
    /\ g_max_hashes \in 1..MaxBatch
    /\ g_yara_rule_map_hash_list \in RunFingerprints
    /\ g_vacuum_seconds = 0
    /\ db \in {TableOf(f, NumIds) : f \in [Ids -> StoredBefore(g_yara_rule_map_hash_list)]}
    /\ rows \in SeqsUpTo(Ids, MaxRows)
    /\ pc = "loop"
    /\ InitRun

\* main, started again: the counters are those of a new process, the
\* fingerprint is computed from the same directory, the feed is written from
\* the table, and perform fetches the rows
rerun ==
    /\ pc = "done"
    /\ run = 1
    /\ run' = 2
    /\ first_run' = [start_db |-> start_db, db |-> db, feed |-> feed, dropped |-> dropped]
    /\ start_db' = db
    /\ dropped' = {}
    /\ g_num_binaries_analyzed' = 0
    /\ g_num_binaries_not_available' = 0
    /\ feed' = generate_feed_from_db(db)
    /\ regenerated' = 1
    /\ row' = 1
    /\ md5_hashes' = <<>>
    /\ num_total_binaries' = 0
    /\ num_binaries_skipped' = 0
    /\ since_start' = 0
    /\ vacuums' = 0
    /\ caller' = "none"
    /\ results' = <<>>
    /\ scan_group' = <<>>
    /\ elapsed' = 0
    /\ analysis_results' = ReturnNone
    /\ save_pos' = 0
    /\ dispatched' = <<>>
    /\ accepted' = <<>>
    /\ raised_in' = "none"
    /\ call' = NoCall
    /\ pc' = "loop"
    /\ UNCHANGED <<config_vars, rules_vars, upload, db, rows, decision>>

NextRerun == Next \/ rerun

SpecRerun == InitRerun /\ [][NextRerun]_vars

(***************************************************************************)
(* A run in distributed mode from the first statement of perform: the      *)
(* rules are uploaded to the workers before the rows are fetched.  The     *)
(* driver is a running thread, so it always takes its next step; nothing   *)
(* obliges the workers to finish anything.                                 *)
(***************************************************************************)
InitRemote ==
    /\ g_remote = TRUE
    /\ g_disable_rescan = FALSE
    /\ g_max_hashes \in 1..MaxBatch
    /\ g_yara_rule_map_hash_list \in RunFingerprints
    /\ g_vacuum_seconds = 0
    /\ db = <<>>
    /\ rows \in SeqsUpTo(Ids, MaxRows)
    /\ pc = "start"
    /\ InitRun

\* `if globals.g_remote: generate_rule_map_remote(yara_rule_dir)', up to the
\* wait: update_yara_rules_remote.delay(ret_dict) submits the task, or raises
perform_upload ==
    /\ pc = "start"
    /\ IF g_remote
       THEN \/ /\ upload' = "PENDING"
               /\ pc' = "upload"
               /\ UNCHANGED raised_in
            \/ /\ pc' = "exit"
               /\ raised_in' = "generate_rule_map_remote"
               /\ UNCHANGED upload
       ELSE /\ pc' = "loop"
            /\ UNCHANGED <<upload, raised_in>>
    /\ UNCHANGED <<config_vars, rules_vars, run, start_db, first_run, dropped, db,
                   counter_vars, feed, perform_vars, timer_vars, caller, dispatch_vars,
                   analysis_results, save_pos, dispatched, accepted, regenerated, call,
                   decision>>

\* a worker finishes update_yara_rules_remote, well or not
upload_worker ==
    /\ upload = "PENDING"
    /\ upload' \in {"SUCCESS", "FAILURE"}
    /\ UNCHANGED <<config_vars, rules_vars, run, start_db, first_run, dropped, db,
                   run_vars, decision>>

\* one turn of `while not result.ready(): time.sleep(0.1)': there is no bound,
\* and a turn that finds the task pending changes nothing
upload_wait ==
    /\ pc = "upload"
    /\ pc' = IF upload # "PENDING" THEN "loop" ELSE pc
    /\ UNCHANGED <<config_vars, rules_vars, outer_vars,
                   dropped, db, counter_vars, feed,
                   perform_vars, timer_vars, caller, dispatch_vars, analysis_results,
                   save_pos, history_vars, decision>>

\* the steps of the driver
DriverNext ==
    \/ perform_upload
    \/ upload_wait
    \/ perform_row
    \/ perform_finish
    \/ analyze_submit
    \/ analyze_poll
    \/ analyze_collect
    \/ save_results
    \/ analyze_return

\* the steps of the workers
SubstrateNext ==
    \/ upload_worker
    \/ \E i \in 1..MaxBatch : worker(i)

NextRemote == DriverNext \/ SubstrateNext

SpecRemote == InitRemote /\ [][NextRemote]_vars /\ WF_vars(DriverNext)

(***************************************************************************)
(* A run in local mode with the vacuum timer: any threshold, the clock       *)
(* advancing.  perform reads the clock only at the head of an iteration, so *)
(* the time a dispatch call takes is added when the call is over.           *)
(***************************************************************************)
VacuumThresholds == -1..MaxVacuum

InitVacuum ==
    /\ g_remote = FALSE
    /\ g_disable_rescan = FALSE
    /\ g_max_hashes \in 1..MaxBatch
    /\ g_yara_rule_map_hash_list \in RunFingerprints
    /\ g_vacuum_seconds \in VacuumThresholds
    /\ db = <<>>
    /\ rows \in SeqsUpTo(Ids, MaxRows)
    /\ pc = "loop"
    /\ InitRun

\* datetime.now() moves on by one tick
clock_tick ==
    /\ pc = "loop"
    /\ since_start < MaxSinceStart
    /\ since_start' = since_start + 1
    /\ UNCHANGED <<config_vars, rules_vars, outer_vars,
                   dropped, db, counter_vars, feed, perform_vars, vacuums, pc, caller,
                   dispatch_vars, analysis_results, save_pos, history_vars, decision>>

NextVacuum ==
    \/ clock_tick
    \/ perform_row
    \/ perform_finish
    \/ analyze_local
    \/ save_results
    \/ analyze_return

SpecVacuum == InitVacuum /\ [][NextVacuum]_vars

(***************************************************************************)
(* The fingerprint on its own: the rule directory changes between calls of *)
(* generate_yara_rule_map_hash, and os.listdir returns the entries in any  *)
(* order.                                                                  *)
(***************************************************************************)
InitFingerprint ==
    /\ g_remote = FALSE
    /\ g_disable_rescan = FALSE
    /\ g_max_hashes = 1
    /\ g_yara_rule_map_hash_list = <<>>
    /\ g_vacuum_seconds = 0
    /\ db = <<>>
    /\ rows = <<>>
    /\ pc = "hashed"
    /\ InitRun

RuleFilesOf(dir) == {entry \in dir : IsRuleFile(entry)}

\* the directory has changed (or not): the fingerprint is to be computed again
DirChanged(dir, change) ==
    /\ pc = "hashed"
    /\ rule_dir' = dir
    /\ dir_change' = change
    /\ hash_list_before' = g_yara_rule_map_hash_list
    /\ pc' = "changed"
    /\ UNCHANGED <<config_vars, outer_vars, dropped, db, counter_vars, feed, perform_vars,
                   timer_vars, caller, dispatch_vars, analysis_results, save_pos,
                   history_vars, decision>>

\* nothing is modified between two calls
dir_keep == DirChanged(rule_dir, "none")

\* an entry is added: a rule file, or something the function does not open
dir_add(entry) ==
    /\ \A other \in rule_dir : other.fn # entry.fn
    /\ IsRuleFile(entry) => Cardinality(RuleFilesOf(rule_dir)) < MaxRules
    /\ DirChanged(rule_dir \cup {entry},
                  IF IsRuleFile(entry) THEN "add_rule" ELSE "add_other")

\* an entry is removed
dir_remove(entry) ==
    /\ entry \in rule_dir
    /\ DirChanged(rule_dir \ {entry},
                  IF IsRuleFile(entry) THEN "remove_rule" ELSE "remove_other")

\* the data of one file are changed
dir_modify(entry, data) ==
    /\ entry \in rule_dir
    /\ entry.isfile
    /\ data # entry.data
    /\ DirChanged((rule_dir \ {entry}) \cup {[entry EXCEPT !.data = data]},
                  IF IsRuleFile(entry) THEN "modify_rule" ELSE "modify_other")

\* generate_yara_rule_map_hash(yara_rule_path), whatever order os.listdir gives
hash_rules ==
    /\ pc = "changed"
    /\ \E listing \in Listings(rule_dir) :
           g_yara_rule_map_hash_list' = generate_yara_rule_map_hash(listing)
    /\ pc' = "hashed"
    /\ UNCHANGED <<g_remote, g_disable_rescan, g_max_hashes, g_vacuum_seconds, rules_vars,
                   outer_vars, dropped, db, counter_vars, feed, perform_vars, timer_vars, caller, dispatch_vars,
                   analysis_results, save_pos, history_vars, decision>>

NextFingerprint ==
    \/ dir_keep
    \/ \E entry \in Entries : dir_add(entry)
    \/ \E entry \in Entries : dir_remove(entry)
    \/ \E entry \in Entries, data \in Contents : dir_modify(entry, data)
    \/ hash_rules

SpecFingerprint == InitFingerprint /\ [][NextFingerprint]_vars

(***************************************************************************)
(* The rescan decision on its own: any stored row, any current fingerprint.*)
(***************************************************************************)
DecideTables ==
    {<<>>} \cup {<<Row(md5, s, m)>> : md5 \in Ids, s \in Scores, m \in MiscValues}

InitDecide ==
    /\ g_remote = FALSE
    /\ g_disable_rescan \in BOOLEAN
    /\ g_max_hashes = 1
    /\ g_yara_rule_map_hash_list \in Fingerprints
    /\ g_vacuum_seconds = 0
    /\ db \in DecideTables
    /\ rows = <<>>
    /\ pc = "decide"
    /\ InitRun

decide(md5_hash) ==
    /\ pc = "decide"
    /\ decision' = [md5 |-> md5_hash, scan |-> _check_hash_against_feed(md5_hash)]
    /\ UNCHANGED <<config_vars, rules_vars, outer_vars,
                   dropped, db, run_vars>>

NextDecide == \E md5_hash \in Ids : decide(md5_hash)

SpecDecide == InitDecide /\ [][NextDecide]_vars

(***************************************************************************)
(* Properties.                                                             *)
(***************************************************************************)
RECURSIVE Flatten(_)
Flatten(batches) ==
    IF batches = <<>> THEN <<>> ELSE Head(batches) \o Flatten(Tail(batches))

\* the batch of the dispatch call in progress, or of the last one
LastBatch == dispatched[Len(dispatched)]

\* nothing in the store, the counters or the feed has changed since the call began
CallerStateUntouched ==
    /\ db = call.db
    /\ g_num_binaries_analyzed = call.analyzed
    /\ g_num_binaries_not_available = call.not_available
    /\ regenerated = call.regenerated + (IF pc = "done" THEN 1 ELSE 0)

\* the stored fingerprint of the row decided on, as json.loads reads it
DecidedRow == db[get_index(db, decision.md5)]
DecidedStored == json_loads(DecidedRow.misc)

\* C1: no exception ever leaves analyze_binaries: whatever fails in a dispatch
\* call, in either mode, the call returns and the driver goes on.
C1_DispatchNeverRaises == raised_in # "analyze_binaries"

\* C2: when a record exists, its stored fingerprint cannot be parsed and rescan
\* is not disabled, _check_hash_against_feed answers True (scan).
C2_UnparseableMeansScan ==
    (/\ decision.md5 # 0
     /\ query_exists(db, decision.md5)
     /\ ~g_disable_rescan
     /\ ~DecidedStored.ok) => decision.scan

C4_RescanDisabledOverride ==
    (decision.md5 # 0 /\ g_disable_rescan) =>
        (decision.scan <=> ~query_exists(db, decision.md5))

\* rescan disabled, a record scanned under other rules: not scanned again
C4_Witness ==
    /\ decision.md5 # 0
    /\ g_disable_rescan
    /\ query_exists(db, decision.md5)
    /\ DecidedStored.ok
    /\ DecidedStored.kind = "list"
    /\ DecidedStored.items # g_yara_rule_map_hash_list
    /\ ~decision.scan

\* C5: with rescan not disabled, for a record whose stored fingerprint parses
\* the answer is False when it equals the current fingerprint, and True when it
\* differs from it in any way.
C5_DecisionMonotonicity ==
    (/\ decision.md5 # 0
     /\ ~g_disable_rescan
     /\ query_exists(db, decision.md5)
     /\ DecidedStored.ok) =>
        (decision.scan <=>
            ~(DecidedStored.kind = "list"
                /\ DecidedStored.items = g_yara_rule_map_hash_list))

\* a record scanned under rules of which one hash has since changed: scanned again
C5_Witness ==
    /\ decision.md5 # 0
    /\ ~g_disable_rescan
    /\ query_exists(db, decision.md5)
    /\ DecidedStored.ok
    /\ DecidedStored.kind = "list"
    /\ Len(DecidedStored.items) = Len(g_yara_rule_map_hash_list)
    /\ DecidedStored.items # g_yara_rule_map_hash_list
    /\ decision.scan

\* C6: in local mode, when unit k of a batch fails, exactly the units 1..k have
\* been executed, the call returns no results, and no record is written.
C6_LocalFailFast ==
    call.failed_unit > 0 =>
        /\ call.executed = SubSeq(LastBatch, 1, call.failed_unit)
        /\ ~truthy(analysis_results)
        /\ pc \in {"return", "loop", "done"}
        /\ CallerStateUntouched

\* the second unit of a batch of two failed after the first had succeeded
C6_Witness ==
    /\ call.failed_unit = 2
    /\ Len(LastBatch) = 2
    /\ Len(results) = 1
    /\ pc = "return"

\* C7: the step of save_results on a result flagged binary_not_available leaves
\* the table and the feed alone, adds one to the unavailable counter and leaves
\* the analyzed counter as it is.
C7_UnavailableIsolation ==
    [][(/\ pc = "save"
        /\ analysis_results.list[save_pos].binary_not_available
        /\ <<pc, save_pos>>' # <<pc, save_pos>>) =>
           (/\ db' = db
            /\ feed' = feed
            /\ regenerated' = regenerated
            /\ g_num_binaries_analyzed' = g_num_binaries_analyzed
            /\ g_num_binaries_not_available' = g_num_binaries_not_available + 1
            /\ save_pos' = save_pos + 1)]_vars

\* a batch whose only result was unavailable has been recorded
C7_Witness ==
    /\ pc = "return"
    /\ truthy(analysis_results)
    /\ \A i \in 1..Len(analysis_results.list) :
           analysis_results.list[i].binary_not_available
    /\ g_num_binaries_not_available = call.not_available + Len(analysis_results.list)
    /\ db = call.db

\* C8: a failure of the record store while result i is handled (in
\* get_or_create or in the update and save) does not end the call: once the
\* call is over, every result after i has been processed.
C8_StoreFailureIsolated ==
    (call.store_failed_at > 0 /\ pc # "save") =>
        \A j \in (call.store_failed_at + 1)..Len(analysis_results.list) : save_pos > j

\* C9: the accepted identifiers are dispatched in consecutive batches in the
\* order accepted: no batch is empty or larger than g_max_hashes, every batch
\* but the last is full, and at Done there are ceil(N / g_max_hashes) batches
\* holding every accepted identifier once.
C9_ConsecutiveBatches ==
    /\ Flatten(dispatched) \o (IF pc = "loop" THEN md5_hashes ELSE <<>>) = accepted
    /\ \A k \in 1..Len(dispatched) :
           /\ Len(dispatched[k]) >= 1
           /\ Len(dispatched[k]) <= g_max_hashes
           /\ k < Len(dispatched) => Len(dispatched[k]) = g_max_hashes
    /\ pc = "done" =>
           /\ Flatten(dispatched) = accepted
           /\ Len(dispatched) * g_max_hashes >= Len(accepted)
           /\ (Len(dispatched) - 1) * g_max_hashes < Len(accepted)
           /\ Len(accepted) = 0 => Len(dispatched) = 0

\* three identifiers accepted, batch size 2: a batch of two, then a batch of one
C9_Witness ==
    /\ pc = "done"
    /\ g_max_hashes = 2
    /\ Len(accepted) = 3
    /\ Len(dispatched) = 2
    /\ Len(dispatched[1]) = 2
    /\ Len(dispatched[2]) = 1

\* C10: at Done every accepted identifier has been dispatched, and the feed
\* holds exactly one report for each row with score > 0 and none for any other
\* row.
C10_FinalFeedReflectsStore ==
    pc = "done" =>
        /\ Flatten(dispatched) = accepted
        /\ \A i \in 1..Len(db) :
               db[i].score > 0 =>
                   Cardinality({j \in 1..Len(feed) :
                                   feed[j].id = db[i].md5 /\ feed[j].score = db[i].score}) = 1
        /\ \A j \in 1..Len(feed) :
               \E i \in 1..Len(db) : db[i].md5 = feed[j].id /\ db[i].score > 0
        /\ Len(feed) = Cardinality({i \in 1..Len(db) : db[i].score > 0})

\* the remaining partial batch was flushed, a score dropped from 5 to 0 in it
\* and no result of it had a positive score
C10_Witness ==
    /\ pc = "done"
    /\ caller = "finish"
    /\ truthy(analysis_results)
    /\ \A i \in 1..Len(analysis_results.list) : analysis_results.list[i].score = 0
    /\ \E i \in 1..Len(call.db) : call.db[i].score > 0 /\ db[i].score = 0

\* the feed f holds one report for each row of table with score > 0, with that
\* row's score, and nothing else
FeedOfStore(f, table) ==
    /\ Len(f) = Cardinality({i \in 1..Len(table) : table[i].score > 0})
    /\ \A i \in 1..Len(table) :
           table[i].score > 0 =>
               \E j \in 1..Len(f) : f[j].id = table[i].md5 /\ f[j].score = table[i].score
    /\ \A j \in 1..Len(f) :
           \E i \in 1..Len(table) :
               table[i].md5 = f[j].id /\ table[i].score = f[j].score /\ table[i].score > 0

\* C11: the step of save_results that saves a result with score > 0 regenerates
\* the whole feed from the table before the next result is handled, so the feed
\* then holds a report for that identifier; a step on a result with score <= 0,
\* or one whose save failed, leaves the feed as it is.
C11_PositiveScoreRegeneratesFeed ==
    [][(pc = "save" /\ <<pc, save_pos>>' # <<pc, save_pos>>) =>
          LET analysis_result == analysis_results.list[save_pos]
              persisted == g_num_binaries_analyzed' = g_num_binaries_analyzed + 1
          IN  IF persisted /\ analysis_result.score > 0
              THEN /\ regenerated' = regenerated + 1
                   /\ FeedOfStore(feed', db')
                   /\ \E j \in 1..Len(feed') :
                          /\ feed'[j].id = analysis_result.md5
                          /\ feed'[j].score = analysis_result.score
                   /\ save_pos' = save_pos + 1
              ELSE /\ regenerated' = regenerated
                   /\ feed' = feed]_vars

\* the first result of a batch of two was saved with a positive score and is in
\* the feed while the second is still to be handled; the table also holds a
\* row with score 0, which is not in the feed
C11_Witness ==
    /\ pc = "save"
    /\ save_pos = 2
    /\ analysis_results.list[1].score > 0
    /\ g_num_binaries_analyzed = call.analyzed + 1
    /\ regenerated = call.regenerated + 1
    /\ \E j \in 1..Len(feed) : feed[j].id = analysis_results.list[1].md5
    /\ \E i \in 1..Len(db) : db[i].score = 0

\* the identifiers of the rows fetched
RowIds == {rows[k] : k \in 1..Len(rows)}

\* the row of md5 in table (a new row when there is none)
RowOf(table, md5) ==
    IF query_exists(table, md5) THEN table[get_index(table, md5)] ELSE NewRecord(md5)

\* the first run left a row, saved under the current rules, for every identifier
AllRecordedByFirstRun ==
    \A md5 \in RowIds :
        /\ query_exists(first_run.db, md5)
        /\ RowOf(first_run.db, md5).misc = json_dumps(g_yara_rule_map_hash_list)

\* C12: in a second run under the same rules over identifiers that all have a
\* row written by the first run, every identifier is skipped, no dispatch call
\* is made, no row is created or modified, and the feed holds the reports it
\* held after the first run.
C12_SecondRunDispatchesNothing ==
    (run = 2 /\ AllRecordedByFirstRun) =>
        /\ pc \in {"loop", "done"}
        /\ dispatched = <<>>
        /\ accepted = <<>>
        /\ num_binaries_skipped = num_total_binaries
        /\ num_total_binaries = row - 1
        /\ db = first_run.db
        /\ feed = first_run.feed

\* the second run is at Done over three rows, all recorded by the first run in
\* two batches, one of them with a positive score
C12_Witness ==
    /\ run = 2
    /\ pc = "done"
    /\ AllRecordedByFirstRun
    /\ Len(rows) = 3
    /\ first_run.start_db = <<>>
    /\ num_binaries_skipped = 3
    /\ Len(feed) > 0

\* md5 has the same row, or no row, in both tables
SameRecord(t1, t2, md5) ==
    /\ query_exists(t1, md5) <=> query_exists(t2, md5)
    /\ query_exists(t1, md5) => RowOf(t1, md5) = RowOf(t2, md5)

\* a dispatch call that failed has returned no results and left the table as it
\* was
FailedCallLeavesStore ==
    (pc = "return" /\ CallFailed) => (~truthy(analysis_results) /\ db = call.db)

\* the identifiers accepted for dispatch so far
AcceptedIds == {accepted[k] : k \in 1..Len(accepted)}

\* C13 as claimed: a batch whose dispatch yields no results leaves the rows of
\* its identifiers as they were, so the next full run under the same rules
\* answers True for each of those identifiers and dispatches it again.
C13_DroppedBatchRetriedNextRun ==
    /\ FailedCallLeavesStore
    /\ (run = 2 /\ pc = "done") =>
           \A md5 \in first_run.dropped :
               md5 \in AcceptedIds /\ Flatten(dispatched) = accepted

\* C13 as amended: a batch whose dispatch yields no results leaves the rows of
\* its identifiers as they were, and the next full run under the same rules
\* answers True again and dispatches again each of those identifiers whose row
\* no other batch of the first run created or modified.
C13_DroppedBatchRetriedUnlessRecorded ==
    /\ FailedCallLeavesStore
    /\ (run = 2 /\ pc = "done") =>
           \A md5 \in first_run.dropped :
               SameRecord(first_run.db, first_run.start_db, md5) =>
                   (md5 \in AcceptedIds /\ Flatten(dispatched) = accepted)

\* a batch of two was dropped in the first run, one of its identifiers having a
\* row of an earlier scan; the second run dispatched both again and recorded
\* them
C13_Witness ==
    /\ run = 2
    /\ pc = "done"
    /\ Cardinality(first_run.dropped) = 2
    /\ first_run.db = first_run.start_db
    /\ Len(first_run.db) = 1
    /\ first_run.dropped \subseteq AcceptedIds
    /\ Len(db) = 2
    /\ \A i \in 1..Len(db) : db[i].misc = json_dumps(g_yara_rule_map_hash_list)

\* C14: with a positive threshold, an iteration of perform that begins when the
\* time since the last vacuum (or since the start of the run) is at least
\* g_vacuum_seconds runs the vacuum script before its row is handled and
\* restarts the timer, at every row and for every positive threshold and every
\* elapsed time; otherwise, and always with a threshold <= 0, the iteration does
\* not run it.
C14_VacuumWhenThresholdPassed ==
    [][(pc = "loop" /\ row' = row + 1) =>
          IF g_vacuum_seconds > 0 /\ since_start >= g_vacuum_seconds
          THEN vacuums' = vacuums + 1 /\ since_start' = 0
          ELSE vacuums' = vacuums /\ since_start' = since_start]_vars

\* while a dispatch call is in progress the batch in assembly is the batch
\* dispatched, and whatever the call before it returned has been recorded to
\* its last result
DispatchSequential ==
    /\ pc \in {"local", "submit", "poll", "collect", "save", "return"} =>
           md5_hashes = LastBatch
    /\ pc \in {"local", "submit", "poll", "collect"} =>
           (~truthy(analysis_results) \/ save_pos = Len(analysis_results.list) + 1)

\* the substrate holds a unit that no worker has finished
UnitsPending == \E i \in 1..Len(scan_group) : scan_group[i].state = "PENDING"

C16_RunSurvivesRecoverableErrors ==
    /\ raised_in = "none"
    /\ pc # "exit"
    /\ pc = "done" => (row = Len(rows) + 1 /\ FeedOfStore(feed, db))

\* the number of rule files of the directory whose data hash to h
RuleFilesWithDigest(h) ==
    Cardinality({entry \in rule_dir : IsRuleFile(entry) /\ md5_hexdigest(entry.data) = h})

\* C17: whatever order the listing comes in, the fingerprint is the ascending
\* sequence of the digests of the rule files; computed again with nothing
\* modified it is the same; it changes when the data of a rule file change
\* and when a rule file is added or removed; directories and entries without
\* a rule extension do not affect it.
C17_FingerprintOfRuleFiles ==
    pc = "hashed" =>
        /\ IsSorted(g_yara_rule_map_hash_list)
        /\ \A h \in RuleHashes :
               Cardinality({i \in 1..Len(g_yara_rule_map_hash_list) :
                               g_yara_rule_map_hash_list[i] = h}) = RuleFilesWithDigest(h)
        /\ dir_change \in {"none", "add_other", "remove_other", "modify_other"} =>
               g_yara_rule_map_hash_list = hash_list_before
        /\ dir_change \in {"modify_rule", "add_rule", "remove_rule"} =>
               g_yara_rule_map_hash_list # hash_list_before

\* two rule files whose digests are not in the order of their names, and a
\* directory named like a rule: the fingerprint, computed again with nothing
\* modified, is the two digests ascending
C17_Witness ==
    /\ pc = "hashed"
    /\ dir_change = "none"
    /\ Len(g_yara_rule_map_hash_list) = 2
    /\ g_yara_rule_map_hash_list[1] < g_yara_rule_map_hash_list[2]
    /\ \E a, b, c \in rule_dir :
           /\ IsRuleFile(a) /\ IsRuleFile(b)
           /\ a.fn < b.fn
           /\ md5_hexdigest(a.data) > md5_hexdigest(b.data)
           /\ c.rule_ext /\ ~c.isfile

\* C18: every wait of the driver on the substrate is bounded, the wait for the
\* upload of the rules included: a run over its rows ends (at Done, or with an
\* exception) even when the workers never finish anything.
C18_RunTerminates == <>(pc \in {"done", "exit"})

\* C19: every step keeps at most one row per identifier and deletes none, and
\* every row a step creates or modifies then holds the run's fingerprint and
\* the score of the available result being recorded for its identifier.
C19_RecordsUniqueAndCurrent ==
    [][/\ \A i, j \in 1..Len(db') : db'[i].md5 = db'[j].md5 => i = j
       /\ Len(db') >= Len(db)
       /\ \A i \in 1..Len(db) : db'[i].md5 = db[i].md5
       /\ \A i \in 1..Len(db') :
              (i > Len(db) \/ db'[i] # db[i]) =>
                  /\ pc = "save"
                  /\ ~analysis_results.list[save_pos].binary_not_available
                  /\ db'[i].md5 = analysis_results.list[save_pos].md5
                  /\ db'[i].score = analysis_results.list[save_pos].score
                  /\ db'[i].misc = json_dumps(g_yara_rule_map_hash_list)]_vars

\* C20: a dispatch call is all-or-nothing in both modes: what it returns is
\* either no results or one result per identifier of the batch, in the order
\* of the batch; a distributed group that completed before the bound with a
\* failed unit returns no results, and nothing of the batch is recorded.
C20_DispatchAllOrNothing ==
    /\ (pc \in {"save", "return"} /\ ~analysis_results.none) =>
           /\ Len(analysis_results.list) = Len(LastBatch)
           /\ \A i \in 1..Len(LastBatch) : analysis_results.list[i].md5 = LastBatch[i]
    /\ (/\ call.poll_exit = "ready"
        /\ \E i \in 1..Len(scan_group) : scan_group[i].state = "FAILURE") =>
           /\ pc \in {"collect", "return", "loop", "done"}
           /\ pc # "collect" => (~truthy(analysis_results) /\ CallerStateUntouched)

\* a group of two completed before the bound, one unit with a result and one
\* failed: the call returned nothing
C20_Witness ==
    /\ pc = "return"
    /\ call.poll_exit = "ready"
    /\ Len(scan_group) = 2
    /\ scan_group[1].state = "SUCCESS"
    /\ scan_group[2].state = "FAILURE"
    /\ analysis_results.none
    /\ db = call.db

=============================================================================
